---- MODULE Spec2Model ----
(***************************************************************************)
(* SpookyMart API gateway (src/api-gateway/server.js): the middleware      *)
(* chain, the rate limiter on /api/, the /health aggregator, the two       *)
(* reverse proxies, the error handler and the shutdown, as a state machine *)
(* over a small pool of request handlers that interleave at their await    *)
(* points; and the product service's catalogue routes                      *)
(* (src/unnamed/part_002) with its Product model.                          *)
(***************************************************************************)
EXTENDS Integers, Sequences, FiniteSets, TLC

(* ------------------------------------------------------------------ *)
(* Bounds of the model                                                 *)
(* ------------------------------------------------------------------ *)

\* the configured ceiling (process.env.RATE_LIMIT), scaled down from 100
RateLimit == 2
\* windowMs in clock ticks, scaled down from 15 * 60 * 1000 ms
WindowMs == 2
\* the clock stops advancing here
MaxTime == 3
\* a client sends at most this many requests beyond the ceiling in one window
MaxOver == 1

\* the body parsers' limit ('10mb') in body tokens
BodyLimit == 2

\* product service: the default page size (50) and the documented ceiling
\* of the page size (100), in products
DefaultLimit == 1
MaxLimit == 2

\* the shutdown timer (30000 ms) in ticks of that timer
GracePeriod == 2
\* largest quantity the shopper raises an entry to
MaxQty == 3

\* client identities (req.ip values) and concurrent request handlers
Clients == {"A", "B"}
ReqIds == {"r1", "r2"}
Upstreams == {"product", "order"}

None == "none"

(* ------------------------------------------------------------------ *)
(* Paths: a path is the sequence of its "/" separators and segments     *)
(* ------------------------------------------------------------------ *)

P_ROOT == <<"/">>
P_HEALTH == <<"/", "health">>
P_API == <<"/", "api">>
P_PRODUCTS == <<"/", "api", "/", "products">>
P_PROD1 == <<"/", "api", "/", "products", "/", "prod-001">>
P_ORDERS == <<"/", "api", "/", "orders">>
P_ORDERS_SLASH == <<"/", "api", "/", "orders", "/">>
P_ORDER1 == <<"/", "api", "/", "orders", "/", "ord-1">>
P_DEBUG == <<"/", "api", "/", "debug", "/", "connectivity">>
P_UNKNOWN == <<"/", "api", "/", "unknown">>
P_OTHER == <<"/", "about">>

IsPrefix(p, s) ==
    /\ Len(p) <= Len(s)
    /\ SubSeq(s, 1, Len(p)) = p

\* app.use(mount, ...): the mount path matches a whole-segment prefix
MountMatches(mount, path) ==
    /\ IsPrefix(mount, path)
    /\ IF Len(path) = Len(mount) THEN TRUE ELSE path[Len(mount) + 1] = "/"

\* app.get(route, ...): the route matches the path, a trailing "/" allowed
RouteMatches(route, path) ==
    IF path = route THEN TRUE
    ELSE route # P_ROOT /\ path = route \o <<"/">>

\* pathRewrite {'^from': 'to'}: the first match of the anchored pattern is
\* replaced, the rest of the path is kept
PathRewrite(from, to, path) ==
    IF IsPrefix(from, path)
    THEN to \o SubSeq(path, Len(from) + 1, Len(path))
    ELSE path

\* req.ip under app.set('trust proxy', true): the forwarded address if the
\* header is present, else the address of the connection
ReqIp(xff, remote) == IF xff # None THEN xff ELSE remote

(* ------------------------------------------------------------------ *)
(* State                                                               *)
(* ------------------------------------------------------------------ *)

VARIABLES
    now,        \* wall clock, in ticks
    store,      \* the limiter's store: key -> [exists, totalHits, resetTime]
    req,        \* request handler -> its request, response and position
    upstream,   \* upstream -> "up" | "erroring" | "refusing" | "silent"
    alive,      \* the gateway process is running
    gWin,       \* history: client -> its wall-clock window [open, start, count]
    gAllowed,   \* history: client -> requests let through in that window
    nodeEnv,    \* process.env.NODE_ENV of the gateway
    closing,    \* server.close() has been called
    grace,      \* ticks left on the shutdown timer, 0 when it is not armed
    products,   \* product service: the list data/products.json parses to
    preq,       \* product service: request handler -> its request and position
    cartItems,  \* storefront: the cart, a list of [id, quantity]
    cartOp      \* history: the last cart operation and its arguments

gwVars == <<nodeEnv, closing, grace>>
svcVars == <<products, preq>>
uiVars == <<cartItems, cartOp>>
vars == <<now, store, req, upstream, alive, gWin, gAllowed, gwVars, svcVars, uiVars>>

NoWindow == [exists |-> FALSE, totalHits |-> 0, resetTime |-> 0]
NoHistory == [open |-> FALSE, start |-> 0, count |-> 0]
NoProbe == [product |-> None, order |-> None]
\* no error; status 0 stands for an error without a status property
NoError == [status |-> 0, message |-> None, stack |-> None]

IdleReq ==
    [pc |-> "idle", ip |-> None, method |-> None, path |-> <<>>,
     ctype |-> None, clen |-> 0, stream |-> <<>>, body |-> <<>>,
     hits |-> 0, status |-> 0, error |-> None, service |-> None,
     headersSent |-> FALSE,
     target |-> None, fwdMethod |-> None, fwdPath |-> <<>>, fwdBody |-> <<>>,
     attempts |-> 0, probe |-> NoProbe, perr |-> NoProbe, raised |-> FALSE,
     saw |-> NoProbe, overall |-> None,
     err |-> NoError, message |-> None, stack |-> None, stages |-> <<>>,
     gPos |-> 0, gStart |-> 0, gEdge |-> FALSE]

\* product service: the ids of the seeded catalogue and the request handlers
ProductIds == <<"prod-001", "prod-002", "prod-003">>
PReqIds == {"h1", "h2"}

Categories == {"Costumes", "Decorations", "Candy", "Masks", "Props", "Makeup",
               "Accessories", "Lights"}

\* a catalogue entry as Product.toJSON writes it
SeedProduct(i) ==
    [id |-> ProductIds[i],
     name |-> IF i = 1 THEN "Witch Hat" ELSE IF i = 2 THEN "Fangs" ELSE "Cobweb",
     description |-> "text",
     price |-> i,
     category |-> IF i = 2 THEN "Masks" ELSE "Costumes",
     stock |-> IF i = 2 THEN 0 ELSE 1,
     imageUrl |-> "uri",
     tags |-> <<>>, isActive |-> TRUE, createdAt |-> 0, updatedAt |-> 0]

SeedProducts == [i \in 1..Len(ProductIds) |-> SeedProduct(i)]

NoQuery ==
    [category |-> None, minPrice |-> None, maxPrice |-> None, inStock |-> None,
     limit |-> None, offset |-> None]

IdlePReq ==
    [pc |-> "idle", method |-> None, id |-> None, body |-> <<>>,
     query |-> NoQuery, snapshot |-> <<>>, before |-> <<>>,
     status |-> 0, error |-> None, result |-> <<>>]

\* the state after start-up, but for the environment and the catalogue
\* useState<CartItem[]>([])
NoCartOp == [op |-> "none", id |-> None, quantity |-> 0]
InitCart ==
    /\ cartItems = <<>>
    /\ cartOp = NoCartOp

InitGateway ==
    /\ now = 0
    /\ store = [c \in Clients |-> NoWindow]
    /\ req = [r \in ReqIds |-> IdleReq]
    /\ upstream = [u \in Upstreams |-> "up"]
    /\ alive = TRUE
    /\ gWin = [c \in Clients |-> NoHistory]
    /\ gAllowed = [c \in Clients |-> 0]
    /\ closing = FALSE
    /\ grace = 0
    /\ preq = [h \in PReqIds |-> IdlePReq]
    /\ InitCart

\* NODE_ENV defaults to 'development'
Init ==
    /\ InitGateway
    /\ nodeEnv = "development"
    /\ products = SeedProducts

\* the clock advances
Tick ==
    /\ now < MaxTime
    /\ now' = now + 1
    /\ UNCHANGED <<store, req, upstream, alive, gWin, gAllowed, gwVars, svcVars, uiVars>>

(* ------------------------------------------------------------------ *)
(* Middleware chain up to the limiter                                  *)
(* ------------------------------------------------------------------ *)

\* express.json / express.urlencoded read the request stream to its end
\* when the content type is theirs and the request has a body
BodyParsed(ctype, body) ==
    /\ ctype \in {"json", "urlencoded"}
    /\ Len(body) > 0

\* first tokens of a body that is not JSON
Malformed == {"{x", "{y"}

\* the error express.json / express.urlencoded pass to next(err): 413 for a
\* body over the limit, 400 for a JSON body that does not parse
ParseError(ctype, body) ==
    IF ~BodyParsed(ctype, body) THEN NoError
    ELSE IF Len(body) > BodyLimit
         THEN [status |-> 413, message |-> "request entity too large",
               stack |-> "PayloadTooLargeError"]
    ELSE IF ctype = "json" /\ body[1] \in Malformed
         THEN [status |-> 400,
               message |-> IF body[1] = "{x" THEN "Unexpected token x"
                           ELSE "Unexpected token y",
               stack |-> IF body[1] = "{x" THEN "SyntaxError at x"
                         ELSE "SyntaxError at y"]
    ELSE NoError

\* the middleware every request runs through first, as registered
ChainNoLogBeforeLimiter == <<"helmet", "cors", "compression", "json", "urlencoded">>
Chain == <<"helmet", "cors", "compression", "json", "urlencoded", "morgan">>

\* the part of the chain up to and with the given stage
RECURSIVE UpTo(_, _)
UpTo(chain, stage) ==
    IF chain = <<>> THEN <<>>
    ELSE IF Head(chain) = stage THEN <<stage>>
    ELSE <<Head(chain)>> \o UpTo(Tail(chain), stage)

\* the stages a request has run when the chain hands it on: all of them,
\* or those up to the body parser that raised an error
StagesRun(ctype, body) ==
    IF ParseError(ctype, body) = NoError THEN Chain ELSE UpTo(Chain, ctype)

\* app.use('/api/', limiter): the paths the limiter is mounted on
LimiterAppliesEverywhere(path) == MountMatches(<<>>, path)
LimiterApplies(path) == MountMatches(P_API, path)

\* a connection is accepted while the server listens; a request arrives on
\* a free handler and runs helmet, cors, compression
\* and the body parsers; /api/ paths go to the limiter next
Arrive(r, ip, method, path, ctype, body) ==
    /\ alive
    /\ ~closing
    /\ req[r].pc \in {"idle", "done"}
    /\ req' = [req EXCEPT ![r] =
            [IdleReq EXCEPT
                !.pc = IF ParseError(ctype, body) # NoError THEN "error"
                       ELSE IF LimiterApplies(path) THEN "limiter" ELSE "route",
                !.err = ParseError(ctype, body),
                !.stages = StagesRun(ctype, body),
                !.ip = ip, !.method = method, !.path = path,
                !.ctype = ctype, !.clen = Len(body),
                !.stream = IF BodyParsed(ctype, body) THEN <<>> ELSE body,
                !.body = IF BodyParsed(ctype, body) /\ ParseError(ctype, body) = NoError
                         THEN body ELSE <<>>]]
    /\ UNCHANGED <<now, store, upstream, alive, gWin, gAllowed, gwVars, svcVars, uiVars>>

(* ------------------------------------------------------------------ *)
(* Rate limiter                                                        *)
(* ------------------------------------------------------------------ *)

\* keyGenerator: the store is keyed by the client's address
LimiterKeyShared(ip) == "A"
LimiterKey(ip) == ip

\* the client's window is over once its reset time is reached
WindowExpiredStrict(w, t) == w.resetTime < t
WindowExpired(w, t) == w.resetTime <= t

\* a window whose end moves with every request
CurrentWindowSliding(w, t) ==
    IF ~w.exists \/ WindowExpired(w, t)
    THEN [exists |-> TRUE, totalHits |-> 0, resetTime |-> t + WindowMs]
    ELSE [w EXCEPT !.resetTime = t + WindowMs]

\* the window the increment works on: a fresh one when there is none or
\* the old one is over
CurrentWindow(w, t) ==
    IF ~w.exists \/ WindowExpired(w, t)
    THEN [exists |-> TRUE, totalHits |-> 0, resetTime |-> t + WindowMs]
    ELSE w

\* the hit count the store writes back for handler r
NextHitsLost(w, r) ==
    IF \E q \in ReqIds \ {r} : req[q].pc = "decide"
    THEN IF w.totalHits = 0 THEN 1 ELSE w.totalHits
    ELSE w.totalHits + 1
NextHits(w, r) == w.totalHits + 1

\* the request is over the ceiling
OverLimitOffByOne(hits) == hits > RateLimit + 1
OverLimit(hits) == hits > RateLimit

\* history: the wall-clock window of client c as of a request at time t
HistoryAt(c, t) ==
    IF ~gWin[c].open \/ t - gWin[c].start >= WindowMs
    THEN [open |-> TRUE, start |-> t, count |-> 1]
    ELSE [gWin[c] EXCEPT !.count = @ + 1]

\* history: a request at time t is the first one after client c's window,
\* which went over the ceiling, ran out at exactly t
AtEdge(c, t) ==
    /\ gWin[c].open
    /\ gWin[c].count > RateLimit
    /\ t - gWin[c].start = WindowMs

\* store.increment(key): one synchronous read-modify-write of the window
LimiterIncrement(r) ==
    LET k == LimiterKey(req[r].ip)
        w == CurrentWindow(store[k], now)
        n == NextHits(w, r)
        h == HistoryAt(req[r].ip, now)
    IN  /\ alive
        /\ req[r].pc = "limiter"
        /\ w.totalHits < RateLimit + MaxOver
        /\ h.count <= RateLimit + MaxOver
        /\ store' = [store EXCEPT ![k] = [w EXCEPT !.totalHits = n]]
        /\ gWin' = [gWin EXCEPT ![req[r].ip] = h]
        /\ gAllowed' = [gAllowed EXCEPT ![req[r].ip] = IF h.count = 1 THEN 0 ELSE @]
        /\ req' = [req EXCEPT ![r].pc = "decide", ![r].hits = n,
                              ![r].stages = Append(@, "limiter"),
                              ![r].gPos = h.count, ![r].gStart = h.start,
                              ![r].gEdge = AtEdge(req[r].ip, now)]
        /\ UNCHANGED <<now, upstream, alive, gwVars, svcVars, uiVars>>

\* the limiter's verdict on the count it was given: 429 with the configured
\* message, or next(); the count goes out of scope with the middleware
LimiterDecide(r) ==
    /\ alive
    /\ req[r].pc = "decide"
    /\ IF OverLimit(req[r].hits)
       THEN /\ req' = [req EXCEPT ![r].pc = "done", ![r].status = 429,
                                  ![r].error = "Too Many Requests",
                                  ![r].hits = 0, ![r].gStart = 0]
            /\ UNCHANGED gAllowed
       ELSE /\ req' = [req EXCEPT ![r].pc = "route",
                                  ![r].hits = 0, ![r].gStart = 0]
            /\ gAllowed' = [gAllowed EXCEPT ![req[r].ip] =
                    IF gWin[req[r].ip].start = req[r].gStart THEN @ + 1 ELSE @]
    /\ UNCHANGED <<now, store, upstream, alive, gWin, gwVars, svcVars, uiVars>>

(* ------------------------------------------------------------------ *)
(* Routes, in the order the application registers them                 *)
(* ------------------------------------------------------------------ *)

IsHealthRoute(q) == q.method = "GET" /\ RouteMatches(P_HEALTH, q.path)
IsDebugRoute(q) == q.method = "GET" /\ RouteMatches(P_DEBUG, q.path)
IsRootRoute(q) == q.method = "GET" /\ RouteMatches(P_ROOT, q.path)
IsProductRoute(q) ==
    /\ ~IsHealthRoute(q) /\ ~IsDebugRoute(q) /\ ~IsRootRoute(q)
    /\ MountMatches(P_PRODUCTS, q.path)
IsOrderRoute(q) ==
    /\ ~IsHealthRoute(q) /\ ~IsDebugRoute(q) /\ ~IsRootRoute(q)
    /\ ~MountMatches(P_PRODUCTS, q.path)
    /\ MountMatches(P_ORDERS, q.path)

\* GET /: the static service descriptor
RouteRoot(r) ==
    /\ alive
    /\ req[r].pc = "route"
    /\ IsRootRoute(req[r])
    /\ req' = [req EXCEPT ![r].pc = "done", ![r].status = 200,
                          ![r].stages = Append(@, "static")]
    /\ UNCHANGED <<now, store, upstream, alive, gWin, gAllowed, gwVars, svcVars, uiVars>>

\* GET /api/debug/connectivity: one GET to the order upstream's /health
RouteDebug(r) ==
    /\ alive
    /\ req[r].pc = "route"
    /\ IsDebugRoute(req[r])
    /\ req' = [req EXCEPT ![r].pc = "testing", ![r].probe.order = "pending",
                          ![r].stages = Append(@, "static")]
    /\ UNCHANGED <<now, store, upstream, alive, gWin, gAllowed, gwVars, svcVars, uiVars>>

\* the connectivity test settles: 200 with the upstream's answer when the
\* GET resolved, 503 with the error when it was rejected
DebugRespond(r) ==
    /\ alive
    /\ req[r].pc = "testing"
    /\ req' = [req EXCEPT ![r].pc = "done",
                          ![r].probe.order = IF upstream["order"] = "up"
                                             THEN "success" ELSE "failed",
                          ![r].status = IF upstream["order"] = "up"
                                        THEN 200 ELSE 503]
    /\ UNCHANGED <<now, store, upstream, alive, gWin, gAllowed, gwVars, svcVars, uiVars>>

\* the '*' handler: no route took the request
NotFound(r) ==
    /\ alive
    /\ req[r].pc = "route"
    /\ ~IsHealthRoute(req[r]) /\ ~IsDebugRoute(req[r]) /\ ~IsRootRoute(req[r])
    /\ ~MountMatches(P_PRODUCTS, req[r].path)
    /\ ~MountMatches(P_ORDERS, req[r].path)
    /\ req' = [req EXCEPT ![r].pc = "done", ![r].status = 404,
                          ![r].error = "Not Found",
                          ![r].stages = Append(@, "notfound")]
    /\ UNCHANGED <<now, store, upstream, alive, gWin, gAllowed, gwVars, svcVars, uiVars>>

\* a middleware or route handler throws, or passes an error to next(err)
Fault(r, e) ==
    /\ alive
    /\ req[r].pc = "route"
    /\ req' = [req EXCEPT ![r].pc = "error", ![r].err = e]
    /\ UNCHANGED <<now, store, upstream, alive, gWin, gAllowed, gwVars, svcVars, uiVars>>

\* res.status(err.status || 500)
ErrorStatus(e) == IF e.status = 0 THEN 500 ELSE e.status

\* the message and the stack field of the error handler's body
ErrorMessageVerbatim(e, env) == e.message
ErrorMessage(e, env) ==
    IF env = "production" THEN "Something went wrong" ELSE e.message
ErrorStack(e, env) == IF env # "production" THEN e.stack ELSE None

\* the global error handler
ErrorHandler(r) ==
    /\ alive
    /\ req[r].pc = "error"
    /\ req' = [req EXCEPT ![r].pc = "done",
                          ![r].status = ErrorStatus(req[r].err),
                          ![r].error = "Internal Server Error",
                          ![r].stages = Append(@, "error"),
                          ![r].message = ErrorMessage(req[r].err, nodeEnv),
                          ![r].stack = ErrorStack(req[r].err, nodeEnv)]
    /\ UNCHANGED <<now, store, upstream, alive, gWin, gAllowed, gwVars, svcVars, uiVars>>

(* ------------------------------------------------------------------ *)
(* Reverse proxies                                                     *)
(* ------------------------------------------------------------------ *)

\* the rewrite rules of the two proxies
ProductRewriteStripped(path) == PathRewrite(P_PRODUCTS, <<>>, path)
ProductRewrite(path) == PathRewrite(P_PRODUCTS, P_PRODUCTS, path)
OrderRewrite(path) == PathRewrite(P_ORDERS, P_ORDERS_SLASH, path)

\* the proxy sends one upstream request: the method, the rewritten original
\* url, the original headers (the content length among them) and whatever
\* is still unread in the request stream
Forward(r, u, path) ==
    /\ req' = [req EXCEPT ![r].pc = "proxying", ![r].target = u,
                          ![r].stages = Append(@, "router"),
                          ![r].fwdMethod = req[r].method,
                          ![r].fwdPath = path,
                          ![r].fwdBody = req[r].stream,
                          ![r].attempts = @ + 1]
    /\ UNCHANGED <<now, store, upstream, alive, gWin, gAllowed, gwVars, svcVars, uiVars>>

ProductProxy(r) ==
    /\ alive
    /\ req[r].pc = "route"
    /\ IsProductRoute(req[r])
    /\ Forward(r, "product", ProductRewrite(req[r].path))

OrderProxy(r) ==
    /\ alive
    /\ req[r].pc = "route"
    /\ IsOrderRoute(req[r])
    /\ Forward(r, "order", OrderRewrite(req[r].path))

\* the upstream has the whole request once it holds as many body bytes as
\* the content length announces
RequestComplete(q) == Len(q.fwdBody) = q.clen

\* the upstream answers: status and headers are relayed to the client
UpstreamRespond(r) ==
    /\ alive
    /\ req[r].pc = "proxying"
    /\ upstream[req[r].target] \in {"up", "erroring"}
    /\ RequestComplete(req[r])
    /\ req' = [req EXCEPT ![r].pc = "relaying", ![r].headersSent = TRUE,
                          ![r].status = IF upstream[req[r].target] = "up"
                                        THEN 200 ELSE 500]
    /\ UNCHANGED <<now, store, upstream, alive, gWin, gAllowed, gwVars, svcVars, uiVars>>

\* the upstream's response body ends and so does the client's
RelayEnd(r) ==
    /\ alive
    /\ req[r].pc = "relaying"
    /\ upstream[req[r].target] \in {"up", "erroring"}
    /\ req' = [req EXCEPT ![r].pc = "done"]
    /\ UNCHANGED <<now, store, upstream, alive, gWin, gAllowed, gwVars, svcVars, uiVars>>

\* the upstream's connection closes in the middle of the response body
RelayCut(r) ==
    /\ alive
    /\ req[r].pc = "relaying"
    /\ upstream[req[r].target] = "refusing"
    /\ req' = [req EXCEPT ![r].pc = "done"]
    /\ UNCHANGED <<now, store, upstream, alive, gWin, gAllowed, gwVars, svcVars, uiVars>>

\* the upstream connection fails: refused while connecting, or reset while
\* the request or the response is in flight
ConnectionFailed(q, u) ==
    /\ q.pc \in {"proxying", "relaying"}
    /\ q.target = u
    /\ upstream[u] = "refusing"

\* an error handler that sends the request round once more before it
\* answers 503
OnErrorRetry(r, service) ==
    IF req[r].headersSent
    THEN /\ alive' = FALSE
         /\ UNCHANGED <<now, store, req, upstream, gWin, gAllowed, gwVars, svcVars, uiVars>>
    ELSE /\ req' = IF req[r].attempts < 2
                   THEN [req EXCEPT ![r].pc = "route"]
                   ELSE [req EXCEPT ![r].pc = "done", ![r].status = 503,
                                    ![r].error = "Service Unavailable",
                                    ![r].service = service]
         /\ UNCHANGED <<now, store, upstream, alive, gWin, gAllowed, gwVars, svcVars, uiVars>>

\* onError: res.status(503).json(...). Once the response head is out the
\* write throws inside the proxy's error event, the exception is uncaught
\* and the uncaughtException handler ends the process
OnError(r, service) ==
    IF req[r].headersSent
    THEN /\ alive' = FALSE
         /\ UNCHANGED <<now, store, req, upstream, gWin, gAllowed, gwVars, svcVars, uiVars>>
    ELSE /\ req' = [req EXCEPT ![r].pc = "done", ![r].status = 503,
                               ![r].error = "Service Unavailable",
                               ![r].service = service]
         /\ UNCHANGED <<now, store, upstream, alive, gWin, gAllowed, gwVars, svcVars, uiVars>>

ProductProxyError(r) ==
    /\ alive
    /\ ConnectionFailed(req[r], "product")
    /\ OnError(r, "product-service")

OrderProxyError(r) ==
    /\ alive
    /\ ConnectionFailed(req[r], "order")
    /\ OnError(r, "order-service")

\* an upstream goes down, hangs, starts failing, or comes back
UpstreamChange(u, s) ==
    /\ upstream[u] # s
    /\ upstream' = [upstream EXCEPT ![u] = s]
    /\ UNCHANGED <<now, store, req, alive, gWin, gAllowed, gwVars, svcVars, uiVars>>

(* ------------------------------------------------------------------ *)
(* Health prober and aggregator                                        *)
(* ------------------------------------------------------------------ *)

\* healthCheck: 'healthy' when axios.get resolves (a 2xx answer within the
\* timeout), 'unhealthy' for every rejection
HealthCheckAnyAnswer(s) == IF s \in {"up", "erroring"} THEN "healthy" ELSE "unhealthy"
HealthCheck(s) == IF s = "up" THEN "healthy" ELSE "unhealthy"

\* axios.get(url, { timeout: 5000 }): resolves on a 2xx answer within the
\* timeout, and is rejected with an Error and its message otherwise
AxiosGet(s) ==
    CASE s = "up" -> [resolved |-> TRUE, message |-> None]
      [] s = "erroring" ->
            [resolved |-> FALSE, message |-> "Request failed with status code 500"]
      [] s = "refusing" ->
            [resolved |-> FALSE, message |-> "connect ECONNREFUSED"]
      [] s = "silent" ->
            [resolved |-> FALSE, message |-> "timeout of 5000ms exceeded"]

\* healthCheck's try / catch: the report it returns, or the rejection it
\* lets through to its caller
HealthCheckRethrow(s) ==
    IF AxiosGet(s).resolved
    THEN [status |-> HealthCheck(s), error |-> None, threw |-> FALSE]
    ELSE [status |-> None, error |-> AxiosGet(s).message, threw |-> TRUE]
HealthCheckReport(s) ==
    IF AxiosGet(s).resolved
    THEN [status |-> HealthCheck(s), error |-> None, threw |-> FALSE]
    ELSE [status |-> HealthCheck(s), error |-> AxiosGet(s).message, threw |-> FALSE]

\* GET /health starts the probes of both upstreams
RouteHealth(r) ==
    /\ alive
    /\ req[r].pc = "route"
    /\ IsHealthRoute(req[r])
    /\ req' = [req EXCEPT ![r].pc = "probing",
                          ![r].stages = Append(@, "static"),
                          ![r].probe = [product |-> "pending", order |-> "pending"]]
    /\ UNCHANGED <<now, store, upstream, alive, gWin, gAllowed, gwVars, svcVars, uiVars>>

\* history: what became of the probe's request, given the upstream's state
ProbeOutcome(s) == IF s = "up" THEN "answered" ELSE "failed"

\* axios.get with { timeout: 5000 } settles whatever the upstream does: by
\* its answer, by the connection's failure, or by the timeout
ProbeSettlesUnlessSilent(s) == s # "silent"
ProbeSettles(s) == s \in {"up", "erroring", "refusing", "silent"}

\* one probe settles: answered, refused, failed or timed out
ProbeDone(r, u) ==
    /\ alive
    /\ req[r].pc = "probing"
    /\ req[r].probe[u] = "pending"
    /\ ProbeSettles(upstream[u])
    /\ LET report == HealthCheckReport(upstream[u])
       IN req' = [req EXCEPT ![r].probe[u] = report.status,
                             ![r].perr[u] = report.error,
                             ![r].raised = @ \/ report.threw,
                             ![r].saw[u] = ProbeOutcome(upstream[u])]
    /\ UNCHANGED <<now, store, upstream, alive, gWin, gAllowed, gwVars, svcVars, uiVars>>

\* the composite status of two reports
OverallHealthEither(p, o) ==
    IF p = "healthy" \/ o = "healthy" THEN "healthy" ELSE "degraded"
OverallHealth(p, o) ==
    IF p = "healthy" /\ o = "healthy" THEN "healthy" ELSE "degraded"

\* the composite answer as soon as one report is in
HealthRespondRace(r) ==
    /\ alive
    /\ req[r].pc = "probing"
    /\ \E u \in Upstreams : req[r].probe[u] # "pending"
    /\ LET overall == IF req[r].raised THEN "unhealthy"
                      ELSE OverallHealth(req[r].probe.product, req[r].probe.order)
       IN req' = [req EXCEPT ![r].pc = "done", ![r].overall = overall,
                             ![r].status = IF overall = "healthy" THEN 200 ELSE 503]
    /\ UNCHANGED <<now, store, upstream, alive, gWin, gAllowed, gwVars, svcVars, uiVars>>

\* Promise.all has both reports: the composite answer; a rejection goes to
\* the route's catch, which answers 503 'unhealthy'
HealthRespond(r) ==
    /\ alive
    /\ req[r].pc = "probing"
    /\ \A u \in Upstreams : req[r].probe[u] # "pending"
    /\ LET overall == IF req[r].raised THEN "unhealthy"
                      ELSE OverallHealth(req[r].probe.product, req[r].probe.order)
       IN req' = [req EXCEPT ![r].pc = "done", ![r].overall = overall,
                             ![r].status = IF overall = "healthy" THEN 200 ELSE 503]
    /\ UNCHANGED <<now, store, upstream, alive, gWin, gAllowed, gwVars, svcVars, uiVars>>

(* ------------------------------------------------------------------ *)
(* Shutdown                                                            *)
(* ------------------------------------------------------------------ *)

\* a handler's connection is open while its request is unanswered
ConnectionOpen(q) == q.pc \notin {"idle", "done"}

\* gracefulShutdown(signal): server.close(callback) and the 30 s timer; the
\* timer of the first signal is the first to run out
Signal(sig) ==
    /\ alive
    /\ closing' = TRUE
    /\ grace' = IF closing THEN grace ELSE GracePeriod
    /\ UNCHANGED <<now, store, req, upstream, alive, gWin, gAllowed, nodeEnv, svcVars, uiVars>>

\* server.close's callback, once no connection is left: process.exit(0)
CloseCallback ==
    /\ alive
    /\ closing
    /\ \A r \in ReqIds : ~ConnectionOpen(req[r])
    /\ alive' = FALSE
    /\ UNCHANGED <<now, store, req, upstream, gWin, gAllowed, gwVars, svcVars, uiVars>>

\* the shutdown timer has run out
GraceNeverExpires == FALSE
GraceExpired == closing /\ grace = 0

\* time passes on the shutdown timer
GraceTick ==
    /\ alive
    /\ closing
    /\ grace > 0
    /\ grace' = grace - 1
    /\ UNCHANGED <<now, store, req, upstream, alive, gWin, gAllowed, nodeEnv, closing, svcVars, uiVars>>

\* the timer's callback: process.exit(1), whatever is still in flight
ForceExit ==
    /\ alive
    /\ GraceExpired
    /\ alive' = FALSE
    /\ UNCHANGED <<now, store, req, upstream, gWin, gAllowed, gwVars, svcVars, uiVars>>

(* ------------------------------------------------------------------ *)
(* Product service: model and routes                                   *)
(* ------------------------------------------------------------------ *)

Fields ==
    {"id", "name", "description", "price", "category", "stock", "imageUrl",
     "tags", "isActive", "createdAt", "updatedAt"}

\* productSchema: the keys marked required()
Required == {"name", "description", "price", "category", "stock"}

\* productSchema: the rule of one key
ValidValue(f, v) ==
    CASE f = "price" -> v > 0
      [] f = "category" -> v \in Categories
      [] f = "imageUrl" -> v # ""
      [] OTHER -> TRUE

\* schema.validate(data) gives no error: no forbidden or unknown key, every
\* required key there, every value within its rule
SchemaOk(data, forbidden) ==
    /\ DOMAIN data \subseteq Fields \ forbidden
    /\ Required \subseteq DOMAIN data
    /\ \A f \in DOMAIN data : ValidValue(f, data[f])

\* the validated value: the data with the schema's default for isActive
WithDefaults(data) ==
    [f \in DOMAIN data \cup {"isActive"} |->
        IF f \in DOMAIN data THEN data[f] ELSE TRUE]

\* Product.update: the schema with id and createdAt forbidden
UpdateOkPartial(data) ==
    /\ DOMAIN data \subseteq Fields \ {"id", "createdAt"}
    /\ \A f \in DOMAIN data : ValidValue(f, data[f])
UpdateOk(data) == SchemaOk(data, {"id", "createdAt"})

\* Product.update on product p at time t: every key of the validated value
\* is assigned, then updatedAt
Update(p, data, t) ==
    [f \in Fields |->
        IF f = "updatedAt" THEN t
        ELSE IF f \in DOMAIN WithDefaults(data) THEN WithDefaults(data)[f]
        ELSE p[f]]

\* products.findIndex(p => p.id === id), 0 for -1
FindIndex(list, id) ==
    IF \E i \in 1..Len(list) : list[i].id = id
    THEN CHOOSE i \in 1..Len(list) :
            /\ list[i].id = id
            /\ \A j \in 1..(i - 1) : list[j].id # id
    ELSE 0

\* a request arrives at the product service
PArrive(h, method, id, body, query) ==
    /\ preq[h].pc \in {"idle", "done"}
    /\ preq' = [preq EXCEPT ![h] =
            [IdlePReq EXCEPT !.pc = "read", !.method = method, !.id = id,
                             !.body = body, !.query = query]]
    /\ UNCHANGED <<now, store, req, upstream, alive, gWin, gAllowed, gwVars, products, uiVars>>

\* await readProducts(): the handler works on its own copy of the file;
\* when the read or the parse fails the copy is the empty list
ReadProducts(h, ok) ==
    /\ preq[h].pc = "read"
    /\ preq' = [preq EXCEPT ![h].pc = "handle",
                            ![h].snapshot = IF ok THEN products ELSE <<>>,
                            ![h].before = IF ok THEN products ELSE <<>>]
    /\ UNCHANGED <<now, store, req, upstream, alive, gWin, gAllowed, gwVars, products, uiVars>>

\* parseInt of a query value
ParseInt(x) ==
    CASE x = "0" -> 0
      [] x = "1" -> 1
      [] x = "2" -> 2
      [] x = "3" -> 3

\* list.slice(start, end)
Slice(list, start, end) ==
    SubSeq(list, start + 1, IF end < Len(list) THEN end ELSE Len(list))

\* the filters of GET /products
Filtered(list, query) ==
    LET byCategory(p) == query.category = None \/ p.category = query.category
        byMin(p) == query.minPrice = None \/ p.price >= ParseInt(query.minPrice)
        byMax(p) == query.maxPrice = None \/ p.price <= ParseInt(query.maxPrice)
        byStock(p) ==
            \/ query.inStock = None
            \/ IF query.inStock = "true" THEN p.stock > 0 /\ p.isActive
               ELSE p.stock = 0 \/ ~p.isActive
    IN SelectSeq(SelectSeq(SelectSeq(SelectSeq(list, byCategory), byMin), byMax), byStock)

\* validateProductQuery's rule for limit; the router does not mount it
LimitValid(limit) ==
    limit = None \/ (ParseInt(limit) >= 1 /\ ParseInt(limit) <= MaxLimit)

\* the page size: parseInt(limit), limit = 50 when the query has none
PageSize(query) ==
    IF query.limit = None THEN DefaultLimit ELSE ParseInt(query.limit)
PageStart(query) ==
    IF query.offset = None THEN 0 ELSE ParseInt(query.offset)

\* GET /products: filter, then slice(startIndex, startIndex + limit)
GetProducts(h) ==
    /\ preq[h].pc = "handle"
    /\ preq[h].method = "GET"
    /\ preq[h].id = None
    /\ LET q == preq[h].query
           list == Filtered(preq[h].snapshot, q)
       IN preq' = [preq EXCEPT ![h].pc = "done", ![h].status = 200,
                    ![h].result = Slice(list, PageStart(q), PageStart(q) + PageSize(q))]
    /\ UNCHANGED <<now, store, req, upstream, alive, gWin, gAllowed, gwVars, products, uiVars>>

\* PUT /products/:id up to the write: 404 for an unknown id; new Product of
\* the stored entry and update(req.body), whose throw the catch answers
\* with 500; else the entry is replaced in the handler's copy
PutProduct(h) ==
    /\ preq[h].pc = "handle"
    /\ preq[h].method = "PUT"
    /\ LET list == preq[h].snapshot
           i == FindIndex(list, preq[h].id)
       IN preq' =
            IF i = 0
            THEN [preq EXCEPT ![h].pc = "done", ![h].status = 404,
                              ![h].error = "Product Not Found"]
            ELSE IF ~SchemaOk(list[i], {}) \/ ~UpdateOk(preq[h].body)
            THEN [preq EXCEPT ![h].pc = "done", ![h].status = 500,
                              ![h].error = "Internal Server Error"]
            ELSE [preq EXCEPT ![h].pc = "write",
                              ![h].snapshot[i] = Update(list[i], preq[h].body, now),
                              ![h].result = <<Update(list[i], preq[h].body, now)>>]
    /\ UNCHANGED <<now, store, req, upstream, alive, gWin, gAllowed, gwVars, products, uiVars>>

\* p.name.toLowerCase()
Lower(name) ==
    CASE name = "FANGS" -> "fangs"
      [] name = "Fangs" -> "fangs"
      [] name = "Witch Hat" -> "witch hat"
      [] name = "Cobweb" -> "cobweb"
      [] name = "Broom" -> "broom"
      [] OTHER -> name

\* uuidv4(): the id a handler's new product gets
NewId(h) == IF h = "h1" THEN "new-1" ELSE "new-2"

\* the Product constructor on accepted data: the fields with their defaults
Construct(data, id, t) ==
    [f \in Fields |->
        IF f \in DOMAIN data THEN data[f]
        ELSE CASE f = "id" -> id
               [] f = "imageUrl" -> ""
               [] f = "tags" -> <<>>
               [] f = "isActive" -> TRUE
               [] f = "createdAt" -> t
               [] f = "updatedAt" -> t]

\* products.find(p => p.name.toLowerCase() === newProduct.name.toLowerCase())
NameTaken(list, name) ==
    \E i \in 1..Len(list) : Lower(list[i].name) = Lower(name)

\* GET /products/:id
GetProduct(h) ==
    /\ preq[h].pc = "handle"
    /\ preq[h].method = "GET"
    /\ preq[h].id # None
    /\ LET i == FindIndex(preq[h].snapshot, preq[h].id)
       IN preq' =
            IF i = 0
            THEN [preq EXCEPT ![h].pc = "done", ![h].status = 404,
                              ![h].error = "Product Not Found"]
            ELSE [preq EXCEPT ![h].pc = "done", ![h].status = 200,
                              ![h].result = <<preq[h].snapshot[i]>>]
    /\ UNCHANGED <<now, store, req, upstream, alive, gWin, gAllowed, gwVars, products, uiVars>>

\* POST /products up to the write: new Product(req.body), whose throw the
\* catch answers with 500; 409 when the name is taken; else the product is
\* pushed on the handler's copy
PostProduct(h) ==
    /\ preq[h].pc = "handle"
    /\ preq[h].method = "POST"
    /\ LET list == preq[h].snapshot
           new == Construct(preq[h].body, NewId(h), now)
       IN preq' =
            IF ~SchemaOk(preq[h].body, {})
            THEN [preq EXCEPT ![h].pc = "done", ![h].status = 500,
                              ![h].error = "Internal Server Error"]
            ELSE IF NameTaken(list, new.name)
            THEN [preq EXCEPT ![h].pc = "done", ![h].status = 409,
                              ![h].error = "Product Already Exists"]
            ELSE [preq EXCEPT ![h].pc = "write",
                              ![h].snapshot = Append(list, new),
                              ![h].result = <<new>>]
    /\ UNCHANGED <<now, store, req, upstream, alive, gWin, gAllowed, gwVars, products, uiVars>>

\* the entry of a deleted product
SoftDeleteStampOnly(p, t) == [p EXCEPT !.updatedAt = t]
SoftDelete(p, t) == [p EXCEPT !.isActive = FALSE, !.updatedAt = t]

\* DELETE /products/:id up to the write: 404 for an unknown id, else the
\* entry is marked in the handler's copy
DeleteProduct(h) ==
    /\ preq[h].pc = "handle"
    /\ preq[h].method = "DELETE"
    /\ LET list == preq[h].snapshot
           i == FindIndex(list, preq[h].id)
       IN preq' =
            IF i = 0
            THEN [preq EXCEPT ![h].pc = "done", ![h].status = 404,
                              ![h].error = "Product Not Found"]
            ELSE [preq EXCEPT ![h].pc = "write",
                              ![h].snapshot[i] = SoftDelete(list[i], now)]
    /\ UNCHANGED <<now, store, req, upstream, alive, gWin, gAllowed, gwVars, products, uiVars>>

\* await writeProducts(products), fs.writeFile of the whole list: the file
\* is replaced by the handler's copy ("ok"); or the file cannot be opened
\* and stays as it was ("failed"); or the write fails after the file was
\* truncated and what is left does not parse ("torn"). Both failures are
\* answered 500 'Save Error'
WriteProducts(h, outcome) ==
    /\ preq[h].pc = "write"
    /\ products' = CASE outcome = "ok" -> preq[h].snapshot
                     [] outcome = "failed" -> products
                     [] outcome = "torn" -> <<>>
    /\ preq' = IF outcome = "ok"
               THEN [preq EXCEPT ![h].pc = "done",
                                 ![h].status = IF preq[h].method = "POST"
                                               THEN 201 ELSE 200]
               ELSE [preq EXCEPT ![h].pc = "done", ![h].status = 500,
                                 ![h].error = "Save Error"]
    /\ UNCHANGED <<now, store, req, upstream, alive, gWin, gAllowed, gwVars, uiVars>>

(* ------------------------------------------------------------------ *)
(* Specifications                                                      *)
(* ------------------------------------------------------------------ *)

\* the rate limiter under two clients, behind or not behind a proxy that
\* sets the forwarded address, with both upstreams answering
LimiterPaths == {P_PROD1}
\* <<forwarded address, connection address>>: A and B connecting directly,
\* and B behind a proxy that connects from A's address
ClientAddrs == { <<None, "A">>, <<None, "B">>, <<"B", "A">> }

Next ==
    \/ \E r \in ReqIds, a \in ClientAddrs, path \in LimiterPaths :
            Arrive(r, ReqIp(a[1], a[2]), "GET", path, None, <<>>)
    \/ \E r \in ReqIds : LimiterIncrement(r)
    \/ \E r \in ReqIds : LimiterDecide(r)
    \/ \E r \in ReqIds : ProductProxy(r)
    \/ \E r \in ReqIds : UpstreamRespond(r)
    \/ \E r \in ReqIds : RelayEnd(r)
    \/ Tick

Spec == Init /\ [][Next]_vars

\* the health aggregator while the upstreams come and go
UpstreamStates == {"up", "erroring", "refusing", "silent"}

NextHealth ==
    \/ \E r \in ReqIds : Arrive(r, "A", "GET", P_HEALTH, None, <<>>)
    \/ \E r \in ReqIds : RouteHealth(r)
    \/ \E r \in ReqIds, u \in Upstreams : ProbeDone(r, u)
    \/ \E r \in ReqIds : HealthRespond(r)
    \/ \E u \in Upstreams, s \in UpstreamStates : UpstreamChange(u, s)

SpecHealth == Init /\ [][NextHealth]_vars

\* the route's callbacks and the probes' timers run once they are due
FairSpecHealth ==
    /\ SpecHealth
    /\ \A r \in ReqIds :
        /\ WF_vars(RouteHealth(r))
        /\ WF_vars(\E u \in Upstreams : ProbeDone(r, u))
        /\ WF_vars(HealthRespond(r))

\* the routes and the two proxies while the upstreams come and go: each
\* request is <<method, path, content type, body>>
ProxyRequests ==
    { <<"GET", P_PROD1, None, <<>> >>,
      <<"DELETE", P_PRODUCTS, None, <<>> >>,
      <<"POST", P_ORDERS, "json", <<"b1", "b2">> >>,
      <<"POST", P_ORDERS, "text", <<"b1", "b2">> >>,
      <<"GET", P_ROOT, None, <<>> >> }

NextProxy ==
    \/ \E r \in ReqIds, q \in ProxyRequests : Arrive(r, "A", q[1], q[2], q[3], q[4])
    \/ \E r \in ReqIds : LimiterIncrement(r)
    \/ \E r \in ReqIds : LimiterDecide(r)
    \/ \E r \in ReqIds : RouteRoot(r)
    \/ \E r \in ReqIds : ProductProxy(r)
    \/ \E r \in ReqIds : OrderProxy(r)
    \/ \E r \in ReqIds : UpstreamRespond(r)
    \/ \E r \in ReqIds : RelayEnd(r)
    \/ \E r \in ReqIds : RelayCut(r)
    \/ \E r \in ReqIds : ProductProxyError(r)
    \/ \E r \in ReqIds : OrderProxyError(r)
    \/ \E u \in Upstreams, s \in UpstreamStates : UpstreamChange(u, s)

SpecProxy == Init /\ [][NextProxy]_vars

\* the steps of handler r that the event loop runs once they are ready: the
\* gateway's own callbacks, and the answers of an upstream that is up
Handlers(r) ==
    \/ LimiterIncrement(r)
    \/ LimiterDecide(r)
    \/ RouteRoot(r)
    \/ ProductProxy(r)
    \/ OrderProxy(r)
    \/ UpstreamRespond(r)
    \/ RelayEnd(r)
    \/ RelayCut(r)
    \/ ProductProxyError(r)
    \/ OrderProxyError(r)

FairSpecProxy == SpecProxy /\ \A r \in ReqIds : WF_vars(Handlers(r))

\* every route of the gateway, the unrouted paths among them, while the
\* order upstream comes and goes: each request is <<method, path>>
RouteRequests ==
    { <<"GET", P_UNKNOWN>>, <<"GET", P_DEBUG>>, <<"GET", P_OTHER>>,
      <<"POST", P_ROOT>>, <<"POST", P_HEALTH>>,
      <<"GET", P_ROOT>>, <<"GET", P_HEALTH>>, <<"GET", P_PROD1>> }

NextRoutes ==
    \/ \E r \in ReqIds, q \in RouteRequests : Arrive(r, "A", q[1], q[2], None, <<>>)
    \/ \E r \in ReqIds : LimiterIncrement(r)
    \/ \E r \in ReqIds : LimiterDecide(r)
    \/ \E r \in ReqIds : RouteRoot(r)
    \/ \E r \in ReqIds : RouteHealth(r)
    \/ \E r \in ReqIds, u \in Upstreams : ProbeDone(r, u)
    \/ \E r \in ReqIds : HealthRespond(r)
    \/ \E r \in ReqIds : RouteDebug(r)
    \/ \E r \in ReqIds : DebugRespond(r)
    \/ \E r \in ReqIds : ProductProxy(r)
    \/ \E r \in ReqIds : UpstreamRespond(r)
    \/ \E r \in ReqIds : RelayEnd(r)
    \/ \E r \in ReqIds : NotFound(r)
    \/ \E s \in {"up", "refusing"} : UpstreamChange("order", s)

SpecRoutes == Init /\ [][NextRoutes]_vars

\* errors on their way to the global error handler, in either environment:
\* each request is <<method, path, content type, body>>
ErrorRequests ==
    { <<"POST", P_ORDERS, "json", <<"{x">> >>,
      <<"POST", P_ORDERS, "json", <<"{y">> >>,
      <<"POST", P_ORDERS, "json", <<"b1", "b2", "b3">> >>,
      <<"GET", P_ROOT, None, <<>> >>,
      <<"GET", P_UNKNOWN, None, <<>> >> }

\* errors without a status, as a throw in the gateway's own code makes them
Faults ==
    { [status |-> 0, message |-> "m1", stack |-> "at1"],
      [status |-> 0, message |-> "m2", stack |-> "at2"] }

InitErrors ==
    /\ InitGateway
    /\ nodeEnv \in {"production", "development"}
    /\ products = SeedProducts

NextErrors ==
    \/ \E r \in ReqIds, q \in ErrorRequests : Arrive(r, "A", q[1], q[2], q[3], q[4])
    \/ \E r \in ReqIds : LimiterIncrement(r)
    \/ \E r \in ReqIds : LimiterDecide(r)
    \/ \E r \in ReqIds : RouteRoot(r)
    \/ \E r \in ReqIds : NotFound(r)
    \/ \E r \in ReqIds, e \in Faults : Fault(r, e)
    \/ \E r \in ReqIds : ErrorHandler(r)

SpecErrors == InitErrors /\ [][NextErrors]_vars

\* shutdown while requests are in flight and the product upstream answers
\* or hangs
NextShutdown ==
    \/ \E r \in ReqIds, path \in {P_ROOT, P_PROD1} :
            Arrive(r, "A", "GET", path, None, <<>>)
    \/ \E r \in ReqIds : LimiterIncrement(r)
    \/ \E r \in ReqIds : LimiterDecide(r)
    \/ \E r \in ReqIds : RouteRoot(r)
    \/ \E r \in ReqIds : ProductProxy(r)
    \/ \E r \in ReqIds : UpstreamRespond(r)
    \/ \E r \in ReqIds : RelayEnd(r)
    \/ \E s \in {"up", "silent"} : UpstreamChange("product", s)
    \/ \E sig \in {"SIGTERM", "SIGINT"} : Signal(sig)
    \/ CloseCallback
    \/ GraceTick
    \/ ForceExit

SpecShutdown == Init /\ [][NextShutdown]_vars

\* timers and close callbacks run once they are due
FairSpecShutdown ==
    SpecShutdown /\ WF_vars(CloseCallback) /\ WF_vars(GraceTick) /\ WF_vars(ForceExit)

\* the product service: listings and updates on a catalogue of up to three
\* products
PartialBody == [price |-> 2, stock |-> 0]
FullBody ==
    [name |-> "Broom", description |-> "text", price |-> 2,
     category |-> "Props", stock |-> 0]

Queries ==
    { NoQuery,
      [NoQuery EXCEPT !.limit = "1", !.offset = "1"],
      [NoQuery EXCEPT !.limit = "2"],
      [NoQuery EXCEPT !.limit = "3"],
      [NoQuery EXCEPT !.limit = "3", !.category = "Costumes"],
      [NoQuery EXCEPT !.limit = "2", !.inStock = "true", !.minPrice = "1"],
      [NoQuery EXCEPT !.limit = "2", !.inStock = "false", !.maxPrice = "2"] }

InitProducts ==
    /\ InitGateway
    /\ nodeEnv = "development"
    /\ products \in {SubSeq(SeedProducts, 1, n) : n \in 0..Len(ProductIds)}

NextProducts ==
    \/ \E h \in PReqIds, q \in Queries : PArrive(h, "GET", None, <<>>, q)
    \/ \E h \in PReqIds, id \in {"prod-001", "prod-404"}, body \in {PartialBody, FullBody} :
            PArrive(h, "PUT", id, body, NoQuery)
    \/ \E h \in PReqIds : ReadProducts(h, TRUE)
    \/ \E h \in PReqIds : GetProducts(h)
    \/ \E h \in PReqIds : PutProduct(h)
    \/ \E h \in PReqIds, outcome \in {"ok", "failed"} : WriteProducts(h, outcome)
    \/ Tick

SpecProducts == InitProducts /\ [][NextProducts]_vars

\* deletes and look-ups by id while the clock runs and the file may fail
NextDelete ==
    \/ \E h \in PReqIds, id \in {"prod-001", "prod-404"} :
            PArrive(h, "DELETE", id, <<>>, NoQuery)
    \/ \E h \in PReqIds : PArrive(h, "GET", "prod-001", <<>>, NoQuery)
    \/ \E h \in PReqIds, ok \in BOOLEAN : ReadProducts(h, ok)
    \/ \E h \in PReqIds : DeleteProduct(h)
    \/ \E h \in PReqIds : GetProduct(h)
    \/ \E h \in PReqIds, outcome \in {"ok", "failed", "torn"} : WriteProducts(h, outcome)
    \/ Tick

SpecDelete == InitProducts /\ [][NextDelete]_vars

(* ------------------------------------------------------------------ *)
(* Storefront cart                                                     *)
(* ------------------------------------------------------------------ *)

\* the ids of the products the storefront lists
Catalogue == {ProductIds[i] : i \in 1..Len(ProductIds)}

\* prevItems.find(item => item.product.id === product.id)
InCart(items, id) == \E i \in 1..Len(items) : items[i].id = id

\* prevItems.filter(item => item.product.id !== productId)
Without(items, id) == SelectSeq(items, LAMBDA item : item.id # id)

\* prevItems.map(item => item.product.id === productId ? {...item, quantity} : item)
WithQuantity(items, id, quantity) ==
    [i \in 1..Len(items) |->
        IF items[i].id = id THEN [items[i] EXCEPT !.quantity = quantity]
        ELSE items[i]]

\* the list addToCart's updater returns
Added(items, id, quantity) ==
    IF InCart(items, id)
    THEN [i \in 1..Len(items) |->
            IF items[i].id = id
            THEN [items[i] EXCEPT !.quantity = items[i].quantity + quantity]
            ELSE items[i]]
    ELSE Append(items, [id |-> id, quantity |-> quantity])

\* the list updateCartQuantity leaves: the entry goes for a quantity <= 0
QuantityUpdatedKept(items, id, quantity) == WithQuantity(items, id, quantity)
QuantityUpdated(items, id, quantity) ==
    IF quantity <= 0 THEN Without(items, id)
    ELSE WithQuantity(items, id, quantity)

CartUnchanged ==
    UNCHANGED <<now, store, req, upstream, alive, gWin, gAllowed, gwVars, svcVars>>

AddToCart(id, quantity) ==
    /\ cartItems' = Added(cartItems, id, quantity)
    /\ cartOp' = [op |-> "add", id |-> id, quantity |-> quantity]
    /\ CartUnchanged

RemoveFromCart(id) ==
    /\ cartItems' = Without(cartItems, id)
    /\ cartOp' = [op |-> "remove", id |-> id, quantity |-> 0]
    /\ CartUnchanged

UpdateCartQuantity(id, quantity) ==
    /\ cartItems' = QuantityUpdated(cartItems, id, quantity)
    /\ cartOp' = [op |-> "update", id |-> id, quantity |-> quantity]
    /\ CartUnchanged

ClearCart ==
    /\ cartItems' = <<>>
    /\ cartOp' = [op |-> "clear", id |-> None, quantity |-> 0]
    /\ CartUnchanged

\* what the shopper types into the quantity box
Typed == {"", "-1", "0", "3"}

\* parseInt(e.target.value) || 1
TypedQuantity(text) ==
    CASE text = "-1" -> 0 - 1
      [] text = "3" -> 3
      [] OTHER -> 1

\* the product card's button adds one; the cart's row has -, a box, + and
\* a remove button; a completed order clears the cart
ClickAdd ==
    \E id \in Catalogue :
        /\ \A i \in 1..Len(cartItems) :
                cartItems[i].id = id => cartItems[i].quantity < MaxQty
        /\ AddToCart(id, 1)
ClickMinus ==
    \E i \in 1..Len(cartItems) :
        /\ ~(cartItems[i].quantity <= 1)
        /\ UpdateCartQuantity(cartItems[i].id, cartItems[i].quantity - 1)
TypeQuantity ==
    \E i \in 1..Len(cartItems), text \in Typed :
        UpdateCartQuantity(cartItems[i].id, TypedQuantity(text))
ClickPlus ==
    \E i \in 1..Len(cartItems) :
        /\ cartItems[i].quantity < MaxQty
        /\ UpdateCartQuantity(cartItems[i].id, cartItems[i].quantity + 1)
ClickRemove ==
    \E i \in 1..Len(cartItems) : RemoveFromCart(cartItems[i].id)
OrderComplete == ClearCart

NextCart ==
    \/ ClickAdd
    \/ ClickMinus
    \/ ClickPlus
    \/ TypeQuantity
    \/ ClickRemove
    \/ OrderComplete

SpecCart == Init /\ [][NextCart]_vars

\* creations, updates and deletes on a catalogue of two products; a handler
\* creates a product while the id it would give is not in the catalogue, and
\* updates address a product of the catalogue
NewBody ==
    [name |-> "Broom", description |-> "text", price |-> 2,
     category |-> "Props", stock |-> 1]
DupBody == [NewBody EXCEPT !.name = "FANGS"]

InitCatalogue ==
    /\ InitGateway
    /\ nodeEnv = "development"
    /\ products = SubSeq(SeedProducts, 1, 2)

Ids(list) == {list[i].id : i \in 1..Len(list)}

CatalogueRequest(h) ==
    \/ \E body \in {NewBody, DupBody} :
            /\ NewId(h) \notin Ids(products)
            /\ PArrive(h, "POST", None, body, NoQuery)
    \/ \E id \in {"prod-001", "new-1"} \cap Ids(products) :
            PArrive(h, "PUT", id, FullBody, NoQuery)
    \/ PArrive(h, "DELETE", "prod-001", <<>>, NoQuery)

\* handlers interleave at their awaits; the file reads and writes succeed
NextConcurrent ==
    \/ \E h \in PReqIds : CatalogueRequest(h)
    \/ \E h \in PReqIds : ReadProducts(h, TRUE)
    \/ \E h \in PReqIds : PostProduct(h)
    \/ \E h \in PReqIds : PutProduct(h)
    \/ \E h \in PReqIds : DeleteProduct(h)
    \/ \E h \in PReqIds : WriteProducts(h, "ok")

SpecConcurrent == InitCatalogue /\ [][NextConcurrent]_vars

\* the same with reads and writes of the file that may fail
NextCatalogue ==
    \/ \E h \in PReqIds : CatalogueRequest(h)
    \/ \E h \in PReqIds, ok \in BOOLEAN : ReadProducts(h, ok)
    \/ \E h \in PReqIds : PostProduct(h)
    \/ \E h \in PReqIds : PutProduct(h)
    \/ \E h \in PReqIds : DeleteProduct(h)
    \/ \E h \in PReqIds, outcome \in {"ok", "failed", "torn"} : WriteProducts(h, outcome)

SpecCatalogue == InitCatalogue /\ [][NextCatalogue]_vars

(* ------------------------------------------------------------------ *)
(* Rate limiter: properties                                            *)
(* ------------------------------------------------------------------ *)

\* the limiter has given its verdict on request q
Decided(q) == q.gPos > 0 /\ q.pc \notin {"limiter", "decide"}
Rejected(q) == q.pc = "done" /\ q.status = 429

\* C1: of the requests of one client in one window, the first RateLimit go
\* on to routing, and every later one is answered 429 'Too Many Requests'
\* and is never forwarded to an upstream
C1_CeilingPerWindow ==
    \A r \in ReqIds :
        Decided(req[r]) =>
            /\ req[r].gPos <= RateLimit => ~Rejected(req[r])
            /\ req[r].gPos > RateLimit =>
                /\ Rejected(req[r])
                /\ req[r].error = "Too Many Requests"
                /\ req[r].target = None
                /\ req[r].attempts = 0

C1_Witness ==
    \E r, q \in ReqIds :
        /\ req[r].gPos = RateLimit /\ req[r].pc = "done" /\ req[r].status = 200
        /\ req[q].gPos = RateLimit + 1 /\ Rejected(req[q])
        /\ req[r].ip = req[q].ip

\* C2: the first request at or after the end of a client's window, the
\* boundary included, gets count 1 in a new window and is let through,
\* whatever the count of the window before
C2_ResetAfterWindow ==
    \A r \in ReqIds :
        /\ req[r].pc = "decide" /\ req[r].gPos = 1 => req[r].hits = 1
        /\ Decided(req[r]) /\ req[r].gPos = 1 => ~Rejected(req[r])

C2_Witness ==
    \E r \in ReqIds :
        /\ req[r].gEdge
        /\ req[r].gPos = 1
        /\ req[r].pc = "done" /\ req[r].status = 200

\* C3: a client's window changes only by that client's own requests, and it
\* counts exactly that client's requests, whatever other clients do
C3_OwnRequestsOnly ==
    \A c \in Clients :
        /\ store[c].exists = gWin[c].open
        /\ store[c].exists =>
            /\ store[c].totalHits = gWin[c].count
            /\ store[c].resetTime = gWin[c].start + WindowMs

C3_Frame ==
    [][\A c \in Clients :
        store'[c] # store[c] =>
            \E r \in ReqIds : /\ req[r].pc = "limiter"
                              /\ req[r].ip = c
                              /\ req'[r].pc = "decide"]_vars

C3_PerClient == []C3_OwnRequestsOnly /\ C3_Frame

C3_Witness ==
    \E r \in ReqIds :
        /\ req[r].ip = "B" /\ req[r].pc = "done" /\ req[r].status = 200
        /\ store["A"].totalHits > RateLimit /\ store["A"].resetTime > now
        /\ store["B"].totalHits = RateLimit /\ store["B"].resetTime > now
        /\ store["B"].resetTime # store["A"].resetTime

\* C4: however the handlers of one client interleave, no more than
\* RateLimit of its requests are let through in one window
C4_NoLostUpdate ==
    \A c \in Clients : gAllowed[c] <= RateLimit

C4_Witness ==
    \E r, q \in ReqIds :
        /\ r # q
        /\ req[r].ip = req[q].ip
        /\ req[r].pc = "decide" /\ req[q].pc = "decide"
        /\ req[r].gStart = req[q].gStart
        /\ req[r].hits = RateLimit
        /\ req[q].hits = RateLimit + 1
        /\ gAllowed[req[r].ip] = RateLimit - 1

\* a request inside a running window adds one to its count and leaves its
\* end where it was
C23_WindowKept ==
    [][\A c \in Clients :
        store[c].exists /\ ~WindowExpired(store[c], now) =>
            /\ store'[c].resetTime = store[c].resetTime
            /\ store'[c] # store[c] => store'[c].totalHits = store[c].totalHits + 1]_vars

\* the request that arrives when a window that went over the ceiling runs
\* out is the first of a new window and is let through
C23_AllowedAtExpiry ==
    \A r \in ReqIds :
        req[r].gEdge /\ Decided(req[r]) => req[r].gPos = 1 /\ ~Rejected(req[r])

\* C23: the window is fixed, not sliding: requests inside a running window,
\* let through or rejected, add to the count and never move the window, so
\* a client that keeps being rejected is let through again at the first
\* request after the end of the original window
C23_FixedWindow == C23_WindowKept /\ []C23_AllowedAtExpiry

C23_Witness ==
    \E r \in ReqIds :
        /\ req[r].pc = "decide"
        /\ req[r].hits = RateLimit + 1
        /\ now > req[r].gStart
        /\ store[req[r].ip].resetTime = req[r].gStart + WindowMs
        /\ store[req[r].ip].totalHits = RateLimit + 1

(* ------------------------------------------------------------------ *)
(* Health aggregator: properties                                       *)
(* ------------------------------------------------------------------ *)

\* GET /health has been answered on handler r
HealthAnswered(q) == q.pc = "done" /\ q.overall # None
ProbeSucceeded(q, u) == q.saw[u] = "answered"

\* C5: when the probe of every upstream succeeded the answer is 200 with
\* composite status 'healthy', and 200 is answered only then
C5_AllHealthy ==
    \A r \in ReqIds :
        HealthAnswered(req[r]) =>
            /\ (\A u \in Upstreams : ProbeSucceeded(req[r], u)) =>
                    req[r].status = 200 /\ req[r].overall = "healthy"
            /\ req[r].status = 200 =>
                    \A u \in Upstreams : ProbeSucceeded(req[r], u)

C5_Witness ==
    \E r \in ReqIds :
        /\ HealthAnswered(req[r])
        /\ \A u \in Upstreams : ProbeSucceeded(req[r], u)
        /\ req[r].status = 200
        /\ upstream["order"] # "up"

\* C6: when the probe of some upstream failed or timed out the answer is
\* 503 with composite status 'degraded', and the reports marked
\* 'unhealthy' are those of exactly the upstreams whose probe failed
C6_DegradedNamesFailing ==
    \A r \in ReqIds :
        HealthAnswered(req[r]) /\ (\E u \in Upstreams : ~ProbeSucceeded(req[r], u)) =>
            /\ req[r].status = 503
            /\ req[r].overall = "degraded"
            /\ \A u \in Upstreams :
                    req[r].probe[u] = "unhealthy" <=> ~ProbeSucceeded(req[r], u)
            /\ \A u \in Upstreams :
                    req[r].probe[u] = "healthy" <=> ProbeSucceeded(req[r], u)

C6_Witness ==
    \E r \in ReqIds :
        /\ HealthAnswered(req[r])
        /\ req[r].saw.product = "failed" /\ req[r].saw.order = "answered"
        /\ upstream["product"] = "silent"
        /\ req[r].probe.product = "unhealthy" /\ req[r].probe.order = "healthy"
        /\ req[r].status = 503

\* the probe of upstream u for request q has completed
ProbeCompleted(q, u) == IsHealthRoute(q) /\ q.probe[u] \notin {None, "pending"}

\* C13: healthCheck never raises to its caller; whatever the outcome of the
\* probe, the report is 'healthy' exactly when the request succeeded within
\* the timeout, and 'unhealthy' with an error string otherwise
C13_ProbeNeverRaises ==
    \A r \in ReqIds :
        /\ ~req[r].raised
        /\ \A u \in Upstreams :
            ProbeCompleted(req[r], u) =>
                /\ req[r].probe[u] \in {"healthy", "unhealthy"}
                /\ req[r].probe[u] = "healthy" <=> ProbeSucceeded(req[r], u)
                /\ req[r].probe[u] = "healthy" => req[r].perr[u] = None
                /\ req[r].probe[u] = "unhealthy" => req[r].perr[u] # None

C13_Witness ==
    \E r, q \in ReqIds :
        /\ HealthAnswered(req[r]) /\ HealthAnswered(req[q])
        /\ req[r].perr.product = "timeout of 5000ms exceeded"
        /\ req[r].perr.order = "connect ECONNREFUSED"
        /\ req[q].perr.product = "Request failed with status code 500"
        /\ req[q].probe.order = "healthy"

\* every probe of GET /health on handler r is under way or over while the
\* request is in the aggregator, and all are over once it is answered
C14_FanIn ==
    \A r \in ReqIds :
        /\ req[r].pc = "probing" =>
                \A u \in Upstreams : req[r].probe[u] # None
        /\ HealthAnswered(req[r]) =>
                \A u \in Upstreams : ProbeCompleted(req[r], u)

\* the step that starts one probe of a request starts them all
C14_FanOut ==
    [][\A r \in ReqIds :
        (\E u \in Upstreams :
            req[r].probe[u] = None /\ req'[r].probe[u] = "pending" /\ IsHealthRoute(req[r]))
        => \A u \in Upstreams :
            req[r].probe[u] = None /\ req'[r].probe[u] = "pending"]_vars

\* C14: for each GET /health the probes of all upstreams start together,
\* before any has completed, and the composite answer is sent only after
\* every one of them has completed
C14_FanOutFanIn == []C14_FanIn /\ C14_FanOut

C14_Witness ==
    \E r \in ReqIds :
        /\ req[r].pc = "probing"
        /\ upstream["product"] = "silent"
        /\ req[r].probe.product = "pending"
        /\ req[r].probe.order = "healthy"
        /\ ~ENABLED HealthRespond(r)

\* GET /health is on handler r and not yet answered
HealthPending(q) == IsHealthRoute(q) /\ q.pc \in {"route", "probing"}

\* a probe that ran into its timeout is reported 'unhealthy'
C22_TimeoutReported ==
    \A r \in ReqIds, u \in Upstreams :
        req[r].perr[u] = "timeout of 5000ms exceeded" => req[r].probe[u] = "unhealthy"

\* C22: every GET /health is answered in the end, also when one or both
\* upstreams never answer their probe: the probe's own timeout turns it
\* into an 'unhealthy' report and the aggregation completes
C22_HealthAlwaysAnswered ==
    /\ []C22_TimeoutReported
    /\ \A r \in ReqIds : HealthPending(req[r]) ~> HealthAnswered(req[r])

C22_Witness ==
    \E r \in ReqIds :
        /\ HealthAnswered(req[r])
        /\ \A u \in Upstreams :
            /\ upstream[u] = "silent"
            /\ req[r].perr[u] = "timeout of 5000ms exceeded"
            /\ req[r].probe[u] = "unhealthy"
        /\ req[r].status = 503

(* ------------------------------------------------------------------ *)
(* Reverse proxies: properties                                         *)
(* ------------------------------------------------------------------ *)

\* request q went past the limiter and a proxy has taken it
Proxied(q) == q.pc \in {"proxying", "relaying", "done"} /\ q.attempts > 0
\* the body the client sent
SentBody(q) == q.body \o q.stream

\* C7: a request under /api/products that the limiter let through goes to
\* the product upstream and to no other, once, with its method and with
\* its path as it came
C7_ProductsForwardedUnchanged ==
    \A r \in ReqIds :
        LET q == req[r] IN
        /\ MountMatches(P_PRODUCTS, q.path) /\ q.pc \in {"proxying", "relaying"} =>
            Proxied(q)
        /\ MountMatches(P_PRODUCTS, q.path) /\ q.pc = "done" /\ ~Rejected(q) =>
            Proxied(q)
        /\ MountMatches(P_PRODUCTS, q.path) /\ Proxied(q) =>
            /\ q.target = "product"
            /\ q.attempts = 1
            /\ q.fwdMethod = q.method
            /\ q.fwdPath = q.path

C7_Witness ==
    \E r, p \in ReqIds :
        /\ req[r].path = P_PROD1 /\ req[r].method = "GET"
        /\ req[r].pc = "done" /\ req[r].status = 200
        /\ req[r].target = "product" /\ req[r].fwdPath = P_PROD1
        /\ req[p].path = P_PRODUCTS /\ req[p].method = "DELETE"
        /\ req[p].pc = "proxying"
        /\ req[p].fwdMethod = "DELETE" /\ req[p].fwdPath = P_PRODUCTS

\* C8: a POST to /api/orders that the limiter let through goes to the order
\* upstream and to no other, as a POST, with the body the client sent and
\* with the path /api/orders/
C8_OrderPostPreserved ==
    \A r \in ReqIds :
        LET q == req[r] IN
        q.method = "POST" /\ q.path = P_ORDERS /\ Proxied(q) =>
            /\ q.target = "order"
            /\ q.fwdMethod = "POST"
            /\ q.fwdPath = P_ORDERS_SLASH
            /\ q.fwdBody = SentBody(q)

\* C9: a request in a proxy's hands whose upstream is unreachable or does
\* not answer is answered in the end, and the answer to a failed upstream
\* request is 503 'Service Unavailable' naming the upstream's service
ServiceOf(u) == IF u = "product" THEN "product-service" ELSE "order-service"

C9_ErrorBody ==
    \A r \in ReqIds :
        req[r].pc = "done" /\ req[r].attempts > 0 /\ ~req[r].headersSent =>
            /\ req[r].status = 503
            /\ req[r].error = "Service Unavailable"
            /\ req[r].service = ServiceOf(req[r].target)

C9_AnsweredWhenUpstreamDown ==
    /\ []C9_ErrorBody
    /\ \A r \in ReqIds :
        (/\ req[r].pc = "proxying"
         /\ RequestComplete(req[r])
         /\ upstream[req[r].target] \in {"refusing", "silent"})
            ~> (req[r].pc = "done" \/ ~alive)

\* C15: the proxies do not retry: a request is forwarded to its upstream at
\* most once, and a failed forward is answered 503 after that one attempt
C15_NoRetry ==
    \A r \in ReqIds :
        /\ req[r].attempts <= 1
        /\ req[r].pc = "done" /\ req[r].error = "Service Unavailable" =>
                req[r].status = 503 /\ req[r].attempts = 1

C15_Witness ==
    \E r \in ReqIds :
        /\ req[r].pc = "done" /\ req[r].status = 503
        /\ req[r].error = "Service Unavailable"
        /\ req[r].attempts = 1
        /\ upstream[req[r].target] = "refusing"

\* C10: while an upstream is down the gateway process runs on, and every
\* request waiting for its route has its route's step ready
RouteReady(r) ==
    ENABLED (RouteRoot(r) \/ RouteHealth(r) \/ ProductProxy(r) \/ OrderProxy(r))

C10_UpstreamFailureNotFatal ==
    (\E u \in Upstreams : upstream[u] # "up") =>
        /\ alive
        /\ \A r \in ReqIds : req[r].pc = "route" => RouteReady(r)

(* ------------------------------------------------------------------ *)
(* Routes and middleware chain: properties                             *)
(* ------------------------------------------------------------------ *)

\* request q is one of GET /, GET /health, or under a proxied prefix
Listed(q) ==
    \/ IsRootRoute(q)
    \/ IsHealthRoute(q)
    \/ MountMatches(P_PRODUCTS, q.path)
    \/ MountMatches(P_ORDERS, q.path)

\* no request went out to an upstream on behalf of request q
NoUpstreamRequest(q) == q.target = None /\ q.attempts = 0 /\ q.probe = NoProbe

\* C11: every request that is not GET /, GET /health or under /api/products
\* or /api/orders is answered 404 'Not Found' with the endpoint listing and
\* causes no request to any upstream
C11_OtherPathsNotFound ==
    \A r \in ReqIds :
        LET q == req[r] IN
        q.pc # "idle" /\ ~Listed(q) =>
            /\ NoUpstreamRequest(q)
            /\ q.pc = "done" => q.status = 404 /\ q.error = "Not Found"

\* request q is GET / or GET /health
Exempt(q) == IsRootRoute(q) \/ IsHealthRoute(q)

C12_NeverRejected ==
    \A r \in ReqIds :
        Exempt(req[r]) =>
            req[r].status # 429 /\ req[r].error # "Too Many Requests"

C12_Frame ==
    [][\A r \in ReqIds :
        Exempt(req'[r]) /\ req'[r] # req[r] =>
            store' = store /\ gWin' = gWin]_vars

\* C12: a request to GET / or GET /health is never answered with the
\* rate-limit error, and no step of it changes any client's window or
\* count, however many /api/ requests the client has made
C12_LimiterOnlyUnderApi == []C12_NeverRejected /\ C12_Frame

C12_Witness ==
    \E r, q \in ReqIds :
        /\ store["A"].totalHits > RateLimit
        /\ req[r].ip = "A" /\ IsRootRoute(req[r])
        /\ req[r].pc = "done" /\ req[r].status = 200
        /\ req[q].ip = "A" /\ IsHealthRoute(req[q])
        /\ HealthAnswered(req[q])

\* the global error handler has answered request q
ErrorAnswered(q) == q.pc = "done" /\ q.err # NoError
\* what the client sees of the answer
ErrorResponse(q) == <<q.status, q.error, q.message, q.stack>>

\* the body of the answer, and what it gives away
C16_Body ==
    \A r, p \in ReqIds :
        ErrorAnswered(req[r]) =>
            /\ req[r].error = "Internal Server Error"
            /\ nodeEnv = "production" =>
                /\ req[r].message = "Something went wrong"
                /\ req[r].stack = None
                /\ ErrorAnswered(req[p]) /\ req[p].err.status = req[r].err.status =>
                        ErrorResponse(req[p]) = ErrorResponse(req[r])
            /\ nodeEnv # "production" =>
                /\ req[r].message = req[r].err.message
                /\ req[r].stack = req[r].err.stack

\* C16 as stated: every error in the gateway's request handling is answered
\* 500 with a generic body; in production the message is always
\* 'Something went wrong' with no stack, so that two errors differing only
\* in message and stack get the same answer; outside production the body
\* carries the error's message and stack
C16_Generic500 ==
    /\ C16_Body
    /\ \A r \in ReqIds : ErrorAnswered(req[r]) => req[r].status = 500

\* C16, amended: the status is the error's own when it carries one (400 for
\* a body that does not parse, 413 for one over the limit) and 500
\* otherwise; the body is as stated
C16_GenericBodyStatusOfError ==
    /\ C16_Body
    /\ \A r \in ReqIds :
        ErrorAnswered(req[r]) =>
            /\ req[r].err.status = 0 => req[r].status = 500
            /\ req[r].err.status # 0 => req[r].status = req[r].err.status

C16_Witness ==
    \E r, p \in ReqIds :
        /\ nodeEnv = "production"
        /\ ErrorAnswered(req[r]) /\ ErrorAnswered(req[p])
        /\ req[r].err.status = 0 /\ req[r].status = 500
        /\ req[p].err.status = 0 /\ req[p].err.message # req[r].err.message
        /\ ErrorResponse(req[p]) = ErrorResponse(req[r])

\* the place of a stage in the order of the contract
Rank(stage) ==
    CASE stage = "helmet" -> 1
      [] stage = "cors" -> 2
      [] stage = "compression" -> 3
      [] stage \in {"json", "urlencoded"} -> 4
      [] stage = "morgan" -> 5
      [] stage = "limiter" -> 6
      [] stage \in {"router", "static", "notfound", "error"} -> 7

Passed(q, stage) == \E i \in 1..Len(q.stages) : q.stages[i] = stage

\* C18: every request runs the stages in the order security headers, CORS,
\* body parsing, access logging, rate limiter (under /api/), then the proxy
\* router or a static endpoint; a request the limiter rejects has passed
\* the logging stage and never reaches the router
C18_StageOrder ==
    \A r \in ReqIds :
        LET q == req[r] IN
        /\ \A i, j \in 1..Len(q.stages) :
                i < j => Rank(q.stages[i]) <= Rank(q.stages[j])
        /\ Passed(q, "router") \/ Passed(q, "static") =>
                /\ \A stage \in {"helmet", "cors", "json", "urlencoded", "morgan"} :
                        Passed(q, stage)
                /\ MountMatches(P_API, q.path) <=> Passed(q, "limiter")
        /\ Rejected(q) =>
                /\ Passed(q, "morgan")
                /\ q.stages[Len(q.stages)] = "limiter"
                /\ ~Passed(q, "router") /\ ~Passed(q, "static")

C18_Witness ==
    \E r, p \in ReqIds :
        /\ Rejected(req[r])
        /\ req[r].stages = Chain \o <<"limiter">>
        /\ req[p].pc = "done" /\ req[p].status = 200
        /\ req[p].stages = Chain \o <<"limiter", "router">>

(* ------------------------------------------------------------------ *)
(* Shutdown: properties                                                *)
(* ------------------------------------------------------------------ *)

\* after the signal no connection is accepted
C17_NoNewConnections ==
    [][closing =>
        \A r \in ReqIds : ~ConnectionOpen(req[r]) => ~ConnectionOpen(req'[r])]_vars

\* while the gateway is closing, a request in flight whose upstream answers
\* has its next step ready, the close callback is ready as soon as no
\* connection is open, and the timer's exit is ready once the timer is out
C17_Ready ==
    alive /\ closing =>
        /\ \A r \in ReqIds :
            /\ req[r].pc = "route" =>
                    ENABLED (RouteRoot(r) \/ ProductProxy(r))
            /\ req[r].pc = "proxying" /\ upstream[req[r].target] = "up" =>
                    ENABLED UpstreamRespond(r)
            /\ req[r].pc = "relaying" /\ upstream[req[r].target] = "up" =>
                    ENABLED RelayEnd(r)
        /\ (\A r \in ReqIds : ~ConnectionOpen(req[r])) => ENABLED CloseCallback
        /\ grace = 0 => ENABLED ForceExit

\* C17: after SIGTERM or SIGINT the gateway accepts no new connection, lets
\* the requests in flight go on, and exits in the end: when the last
\* connection is closed, or when the shutdown timer runs out with a
\* request still in flight
C17_GracefulShutdown ==
    /\ C17_NoNewConnections
    /\ []C17_Ready
    /\ closing ~> ~alive

C17_Witness ==
    \E r \in ReqIds :
        /\ closing /\ ~alive
        /\ grace = 0
        /\ req[r].pc = "proxying"
        /\ upstream["product"] = "silent"

(* ------------------------------------------------------------------ *)
(* Product service: properties                                         *)
(* ------------------------------------------------------------------ *)

\* C19: a PUT on an existing product whose body holds only some valid
\* fields succeeds, sets exactly those fields and updatedAt, and leaves the
\* product's other fields and every other product as they were
C19_PartialUpdate ==
    \A h \in PReqIds :
        LET q == preq[h]
            i == FindIndex(q.before, q.id)
        IN  (/\ q.method = "PUT" /\ q.pc = "done"
             /\ i # 0
             /\ q.error # "Save Error"
             /\ UpdateOkPartial(q.body))
            => /\ q.status = 200
               /\ Len(q.snapshot) = Len(q.before)
               /\ \A j \in 1..Len(q.before) : j # i => q.snapshot[j] = q.before[j]
               /\ \A f \in Fields :
                    /\ f \in DOMAIN q.body => q.snapshot[i][f] = q.body[f]
                    /\ f \notin DOMAIN q.body \cup {"updatedAt"} =>
                            q.snapshot[i][f] = q.before[i][f]

\* C20: GET /products answers with at most limit products, 50 when the
\* query has no limit, and never with more than 100
C20_PageSizeCapped ==
    \A h \in PReqIds :
        preq[h].method = "GET" /\ preq[h].pc = "done" =>
            /\ Len(preq[h].result) <= PageSize(preq[h].query)
            /\ Len(preq[h].result) <= MaxLimit

\* the copy a DELETE handler is about to write, or has written, differs from
\* what it read in the product's isActive and updatedAt only; an unknown id
\* is answered 404; GET by id answers with the entry whatever its isActive
C21_Copy ==
    \A h \in PReqIds :
        LET q == preq[h]
            i == FindIndex(q.before, q.id)
        IN  /\ q.method = "DELETE" /\ (q.pc = "write" \/ (q.pc = "done" /\ q.status = 200)) =>
                /\ i # 0
                /\ Len(q.snapshot) = Len(q.before)
                /\ \A j \in 1..Len(q.before) : j # i => q.snapshot[j] = q.before[j]
                /\ q.snapshot[i].isActive = FALSE
                /\ q.snapshot[i].updatedAt >= q.before[i].updatedAt
                /\ \A f \in Fields \ {"isActive", "updatedAt"} :
                        q.snapshot[i][f] = q.before[i][f]
            /\ q.method = "DELETE" /\ q.pc = "done" /\ i = 0 => q.status = 404
            /\ q.method = "GET" /\ q.pc = "done" /\ i # 0 =>
                    q.status = 200 /\ q.result = <<q.before[i]>>

\* the delete stamps the time of the request; its successful write puts
\* the handler's copy in the file; its 404 changes nothing
C21_Steps ==
    [][\A h \in PReqIds :
        preq[h].method = "DELETE" /\ preq'[h] # preq[h] =>
            /\ preq'[h].pc = "write" =>
                    preq'[h].snapshot[FindIndex(preq[h].before, preq[h].id)].updatedAt = now
            /\ preq[h].pc = "write" /\ preq'[h].status = 200 =>
                    products' = preq[h].snapshot
            /\ preq'[h].status = 404 => products' = products]_vars

\* C21: DELETE is a soft delete: after a successful delete the product is
\* in the store with its id and fields, but for isActive = false and a new
\* updatedAt, GET by id still answers with it, and no other product is
\* changed; the delete of an unknown id is answered 404 and changes nothing
C21_SoftDelete == []C21_Copy /\ C21_Steps

C21_Witness ==
    \E h, g \in PReqIds :
        /\ preq[h].method = "DELETE" /\ preq[h].id = "prod-001"
        /\ preq[h].pc = "done" /\ preq[h].status = 200
        /\ preq[g].method = "GET" /\ preq[g].pc = "done" /\ preq[g].status = 200
        /\ preq[g].result[1].id = "prod-001"
        /\ preq[g].result[1].isActive = FALSE
        /\ preq[g].result[1].updatedAt > 0
        /\ preq[g].result[1].name = SeedProduct(1).name
        /\ Len(products) = 2 /\ products[2] = SeedProduct(2)

\* a POST whose name is taken in the list it read is answered 409
C24_Conflict ==
    \A h \in PReqIds :
        LET q == preq[h] IN
        q.method = "POST" /\ q.pc = "done" /\ NameTaken(q.before, q.body.name) =>
            q.status = 409 /\ q.error = "Product Already Exists"

\* the step that answers a POST with 409 or 500 leaves the file as it was
C24_StoreKept ==
    [][\A h \in PReqIds :
        (/\ preq[h].method = "POST"
         /\ preq[h].pc # "done" /\ preq'[h].pc = "done"
         /\ preq'[h].status \in {409, 500})
        => products' = products]_vars

\* C24: a POST with a name that equals, ignoring case, the name of a stored
\* product is answered 409 'Product Already Exists' and leaves the store
\* as it was; a POST whose file write fails is answered 500 'Save Error'
\* and the stored list is the one from before the request
C24_RejectedPostKeepsStore == []C24_Conflict /\ C24_StoreKept

\* the product a POST constructed passes the schema again with the same fields
C25_Reconstruct ==
    \A h \in PReqIds :
        LET q == preq[h] IN
        q.method = "POST" /\ q.result # <<>> =>
            /\ SchemaOk(q.result[1], {})
            /\ Construct(q.result[1], NewId(h), now) = q.result[1]

\* a valid PUT on a stored product is not answered 500 by the constructor
C25_Reload ==
    \A h \in PReqIds :
        LET q == preq[h] IN
        (/\ q.method = "PUT" /\ q.pc = "done"
         /\ FindIndex(q.before, q.id) # 0
         /\ UpdateOk(q.body))
        => q.error # "Internal Server Error"

\* C25: for every product the constructor accepted, one created without
\* imageUrl or tags included, new Product(p.toJSON()) succeeds with the
\* same field values, so every product that POST stored can be loaded
\* again by PUT /api/products/:id
C25_RoundTrip == C25_Reconstruct /\ C25_Reload

\* a product whose POST was answered 201 is in the file
C26_CreatedKept ==
    \A h \in PReqIds :
        LET q == preq[h] IN
        q.method = "POST" /\ q.pc = "done" /\ q.status = 201 =>
            q.result[1].id \in Ids(products)

\* a product whose DELETE was answered 200 is inactive in the file while no
\* update of it has been accepted since
C26_DeletedKept ==
    \A h \in PReqIds :
        LET q == preq[h] IN
        (/\ q.method = "DELETE" /\ q.pc = "done" /\ q.status = 200
         /\ \A g \in PReqIds : ~(preq[g].method = "PUT" /\ preq[g].id = q.id))
        => \E i \in 1..Len(products) :
                products[i].id = q.id /\ ~products[i].isActive

\* C26: under any interleaving of POST, PUT and DELETE handlers, each of
\* which reads the whole file, changes its list and writes the whole file,
\* every product whose POST returned 201 is in the store afterwards and
\* every delete that returned success shows in the store
C26_NoLostWrite == C26_CreatedKept /\ C26_DeletedKept

\* C27: the set of product ids in the store never shrinks: no step of a
\* GET, POST, PUT or DELETE request, a request whose read of the products
\* file fails included, removes a product that was stored before
C27_IdsNeverShrink == [][Ids(products) \subseteq Ids(products')]_vars

\* names are pairwise different ignoring case
UniqueNames(list) ==
    \A i, j \in 1..Len(list) :
        i # j => Lower(list[i].name) # Lower(list[j].name)

\* C28: starting from a store with pairwise distinct names, after any
\* sequence of successful POST and PUT requests no two stored products
\* have names that are equal ignoring case
C28_NamesUnique == UniqueNames(products)

\* one entry per product id, every quantity at least 1
C29_WellFormed ==
    /\ \A i, j \in 1..Len(cartItems) :
            i # j => cartItems[i].id # cartItems[j].id
    /\ \A i \in 1..Len(cartItems) : cartItems[i].quantity >= 1

\* an update to a quantity <= 0 removes the entry; adding a product that
\* is in the cart raises its quantity and adds no entry
C29_Steps ==
    [][/\ (cartOp'.op = "update" /\ cartOp'.quantity <= 0)
            => cartItems' = Without(cartItems, cartOp'.id)
       /\ (cartOp'.op = "add" /\ InCart(cartItems, cartOp'.id))
            => /\ Len(cartItems') = Len(cartItems)
               /\ \A i \in 1..Len(cartItems) :
                    /\ cartItems'[i].id = cartItems[i].id
                    /\ cartItems'[i].quantity =
                         IF cartItems[i].id = cartOp'.id
                         THEN cartItems[i].quantity + cartOp'.quantity
                         ELSE cartItems[i].quantity]_vars

\* C29: in the storefront cart, after any sequence of addToCart,
\* updateCartQuantity, removeFromCart and clearCart operations, there is at
\* most one cart entry per product id and every entry's quantity is at
\* least 1: updating to a quantity <= 0 removes the entry, and adding a
\* product that is in the cart raises its quantity and adds no second entry
C29_CartInvariant == []C29_WellFormed /\ C29_Steps

\* an entry was raised by a second add, another was removed by an update to
\* a quantity below 1
C29_Witness ==
    /\ cartOp.op = "update" /\ cartOp.quantity <= 0
    /\ Len(cartItems) = 1 /\ cartItems[1].quantity >= 2
    /\ cartItems[1].id # cartOp.id

====
